---- MODULE Spec2Model ----
(***************************************************************************)
(* Resumable windowed collection engine of okn_wobd/cli.py: the Linear and *)
(* Segmented Fetchers with their checkpoint and output log (Spec), and the *)
(* Segment Planner compute_segments (PlanSpec).                            *)
(*                                                                         *)
(* Scaling.  The result window (max_window, 10,000 in the source) is       *)
(* MaxWindow; record identifiers are small integers; one resource is       *)
(* followed through several process runs.  The search API is the external  *)
(* collaborator: it serves a backing dataset that is fixed while a process *)
(* runs and may grow past the window between two runs, answers a page      *)
(* request with the matching records in [offset, offset+size), and rejects *)
(* with HTTP 400 any request whose offset + size exceeds the window.       *)
(*                                                                         *)
(* The planner runs against count responses chosen freely per query (a     *)
(* total or an exception).  Its charset has two symbols, the year and      *)
(* month ranges two values each, and the wildcard bases ("DRYAD", "DOI")   *)
(* are stood for by the one-symbol prefix "D".  Prefixes and query strings *)
(* are sequences of symbols.                                               *)
(***************************************************************************)
EXTENDS Integers, Sequences, FiniteSets, TLC

\* ------------------------------------------------------------------------
\* Bounds
\* ------------------------------------------------------------------------
MaxWindow == 3

MaxRuns == 3

MaxKills == 2

\* safe_limit = max_window - 1
SafeLimit == MaxWindow - 1

\* --page-size is an IntRange(1, 1000) and --max-window an IntRange(1000, ..):
\* the configured page size never exceeds the window.
PageSizes == 1..MaxWindow

NoTotal == -1

Min(a, b) == IF a <= b THEN a ELSE b

ToSet(s) == {s[i] : i \in 1..Len(s)}

NoDup(s) == \A i, j \in 1..Len(s) : i # j => s[i] # s[j]

\* ------------------------------------------------------------------------
\* The fixed backing data behind each query
\* ------------------------------------------------------------------------
\* Records matching the root query "*" of a resource with n records.
RootRecs(n) == [i \in 1..n |-> i]

\* Records matching the query of a segment prefix.  "A" and "B" share record
\* 2 (a record surfacing in two segments); "C" matches more records than the
\* window can address.
SegRecs(prefix) ==
    CASE prefix = "A" -> <<1, 2>>
      [] prefix = "B" -> <<2, 3>>
      [] prefix = "C" -> [i \in 1..(MaxWindow + 1) |-> i + 2]
      [] OTHER -> <<>>

\* Segment dicts the planner can hand to the fetcher: exact counts, a count
\* capped at safe_limit, and an uncapped count above the window.
SegChoices ==
    { [prefix |-> "A", total |-> 2],
      [prefix |-> "B", total |-> 2],
      [prefix |-> "C", total |-> SafeLimit],
      [prefix |-> "C", total |-> MaxWindow + 1] }

Plans ==
    { <<s>> : s \in SegChoices } \cup
    { p \in { <<s, t>> : s \in SegChoices, t \in SegChoices } :
        p[1].prefix # p[2].prefix }

\* A world: the resource's total and, above the window, the planner's result.
Worlds ==
    { [total |-> n, plan |-> <<>>] : n \in 0..MaxWindow } \cup
    { [total |-> MaxWindow + 2, plan |-> p] : p \in Plans }

\* ------------------------------------------------------------------------
\* State
\* ------------------------------------------------------------------------
VARIABLES
    world,        \* the backing data (fixed)
    pageSize,     \* --page-size (fixed)
    ckptStatus,   \* checkpoint file: "absent" | "malformed" | "ok"
    ckptState,    \* the payload in it when "ok"
    logExists,    \* output log file exists
    logRecs,      \* records durably in the output log
    pc,           \* position of the running process ("idle": none)
    restart,      \* --restart flag of the current run
    st,           \* FetchState in memory
    buf,          \* records written to data_file and not yet flushed
    seenIds,      \* seen_identifiers of fetch_segmented
    idx,          \* loop index of fetch_segmented
    offset,       \* local offset
    effTotal,     \* effective_segment_total
    hits,         \* hits of the page being handled
    req,          \* last page request issued, with the previous page's
                  \* offset and end (-1: none)
    prevPage,      \* [offset, end] of the previous page of this run
    runWrites,    \* records this run has written to data_file
    warnings,     \* resource_warnings types recorded by this run
    lastEnd,      \* how the last run ended
    runs, kills,  \* runs started, kills injected
    wiped,        \* this run's restart deleted a non-empty output log
    history       \* what happened since the last restart

fvars == << world, pageSize, ckptStatus, ckptState, logExists, logRecs, pc,
            restart, st, buf, seenIds, idx, offset, effTotal, hits, req,
            prevPage, runWrites, warnings, lastEnd, runs, kills, wiped, history >>

\* The variables of a multi-resource run (fetch_command, below)
VARIABLES
    cmdPc,                 \* position in fetch_command
    cmdRestart,            \* --restart
    position,              \* index of the resource the loop is at
    disk,                  \* per resource: its checkpoint and output log
    called,                \* resources fetch_resource was called for
    raised,                \* per resource: the exception its fetch raised
    completed_resources,
    incomplete_resources,
    failed_resources,
    summaryWritten,        \* fetch_summary.json was written
    unhandled              \* the exception that left fetch_command

cvars == << cmdPc, cmdRestart, position, disk, called, raised,
            completed_resources, incomplete_resources, failed_resources,
            summaryWritten, unhandled >>

\* The variables of one request (request_payload, below)
VARIABLES
    reqPc,          \* "sending", "returned" or "raised"
    attempt,        \* request_payload's loop variable
    tries,          \* retries the session's adapter has used in this attempt
    sends,          \* HTTP exchanges so far
    sleeps,         \* time.sleep calls of request_payload, in seconds
    adapterSleeps,  \* backoff waits of the adapter, in seconds
    lastResponse,   \* what the last exchange brought
    error,          \* the exception raised to the caller
    payload         \* the exchange whose JSON was returned

rvars == << reqPc, attempt, tries, sends, sleeps, adapterSleeps, lastResponse,
            error, payload >>

\* The variables of the write loop over one segment's pages
\* (fetch_segmented's "for item in hits", below)
VARIABLES
    lastItem,            \* the item the loop handled last
    seen_identifiers,
    written,             \* the items written to data_file, in order
    duplicates_skipped

dvars == << lastItem, seen_identifiers, written, duplicates_skipped >>

\* What the fetch of one resource and the planner leave alone.
svars == << cvars, rvars, dvars >>

\* No item handled yet.
NoItem == [name |-> "none"]

\* fetch_segmented before its first page.
DedupIdle ==
    /\ lastItem = NoItem
    /\ seen_identifiers = {}
    /\ written = <<>>
    /\ duplicates_skipped = 0

\* No exchange yet.
NoResponse == [kind |-> "none", code |-> 0]

\* request_payload before its loop.
ReqIdle ==
    /\ reqPc = "sending"
    /\ attempt = 0
    /\ tries = 0
    /\ sends = 0
    /\ sleeps = <<>>
    /\ adapterSleeps = <<>>
    /\ lastResponse = NoResponse
    /\ error = "none"
    /\ payload = 0

\* Resources of one run.
NumResources == 2

Resources == 1..NumResources

NoException == "none"


\* A resource with no file on disk.
AbsentDisk == [ckpt |-> "absent", log |-> FALSE, fetched |-> 0, total |-> 1]

\* fetch_command before its loop, on resources without files.
CmdIdle ==
    /\ cmdPc = "fetch"
    /\ cmdRestart = FALSE
    /\ position = 1
    /\ disk = [i \in Resources |-> AbsentDisk]
    /\ called = {}
    /\ raised = [i \in Resources |-> NoException]
    /\ completed_resources = <<>>
    /\ incomplete_resources = <<>>
    /\ failed_resources = <<>>
    /\ summaryWritten = FALSE
    /\ unhandled = NoException

\* The planner's variables (compute_segments, below)
VARIABLES
    planPc,         \* position in compute_segments
    segmentField,   \* segment_field argument
    total,          \* total of the root query
    pending,        \* deque of [prefix, total, depth]
    seen,           \* set of prefixes
    segments,       \* segments emitted so far
    node,           \* the node popped and being expanded
    dateSegments,   \* date_segments / name_segments awaiting sub-segmentation
    finalSegments,  \* final_segments / final_name_segments
    yearIndex,      \* position in the year loop
    planWarnings,   \* warnings appended to the caller's list
    shortfallWarned,\* the planning-completeness warning was printed
    asked,          \* count queries sent, in order
    large,          \* count responses above the safe limit so far
    countsAddUp,    \* every expansion's nonzero child counts summed to its parent's
    result          \* (segments, effective field) returned

pvars == << planPc, segmentField, total, pending, seen, segments, node,
            dateSegments, finalSegments, yearIndex, planWarnings,
            shortfallWarned, asked, large, countsAddUp, result >>

vars == << fvars, pvars, cvars, rvars, dvars >>

NoNode == [prefix |-> <<>>, total |-> 0, depth |-> 0]

NoResult == [segments |-> <<>>, field |-> ""]

PlanIdle ==
    /\ planPc = "start"
    /\ total = 0
    /\ pending = <<>>
    /\ seen = {}
    /\ segments = <<>>
    /\ node = NoNode
    /\ dateSegments = <<>>
    /\ finalSegments = <<>>
    /\ yearIndex = 0
    /\ planWarnings = {}
    /\ shortfallWarned = FALSE
    /\ asked = <<>>
    /\ large = 0
    /\ countsAddUp = TRUE
    /\ result = NoResult

\* FetchState(resource=resource): the dataclass defaults.
\* segment_field: Optional[str] = None
NoField == "None"

FreshState ==
    [ mode |-> "linear", next_offset |-> 0, total |-> NoTotal,
      segments |-> <<>>, segment_index |-> 0, segment_offset |-> 0,
      segment_field |-> NoField ]

\* json.dump of an Optional value: None is written as null.
ToJson(v, none, zero) ==
    IF v = none THEN [null |-> TRUE, value |-> zero]
                ELSE [null |-> FALSE, value |-> v]

\* json.load of an Optional value: null is read as None.
FromJson(j, none) == IF j.null THEN none ELSE j.value

\* The payload FetchState.dump writes: one key per field, and the time of
\* the write.
DumpPayload(s) ==
    [ resource |-> "resource",
      mode |-> s.mode,
      segment_field |-> ToJson(s.segment_field, NoField, ""),
      next_offset |-> s.next_offset,
      total |-> ToJson(s.total, NoTotal, 0),
      segments |-> s.segments,
      segment_index |-> s.segment_index,
      segment_offset |-> s.segment_offset,
      updated_at |-> "utcnow" ]

\* A load that does not read the position inside the segment.
LoadWithoutSegmentOffset(doc) ==
    [ mode |-> doc.mode,
      next_offset |-> doc.next_offset,
      total |-> FromJson(doc.total, NoTotal),
      segments |-> doc.segments,
      segment_index |-> doc.segment_index,
      segment_offset |-> 0,
      segment_field |-> FromJson(doc.segment_field, NoField) ]

\* FetchState.load: the fields read back from the payload.
Load(doc) ==
    [ mode |-> doc.mode,
      next_offset |-> doc.next_offset,
      total |-> FromJson(doc.total, NoTotal),
      segments |-> doc.segments,
      segment_index |-> doc.segment_index,
      segment_offset |-> doc.segment_offset,
      segment_field |-> FromJson(doc.segment_field, NoField) ]

\* The content of a checkpoint file that is absent or incomplete.
NoPayload == DumpPayload(FreshState)

NoPage == [offset |-> -1, end |-> -1]

NoReq == [offset |-> -1, size |-> -1, prev |-> NoPage, status |-> 0]

\* What the log's lifetime has seen since the last restart.
CleanHistory == [killed |-> FALSE, killedMidSegment |-> FALSE, failed |-> FALSE]

\* No process of fetch_resource has run yet.
FetchIdle ==
    /\ world \in Worlds
    /\ pageSize \in PageSizes
    /\ pc = "idle"
    /\ restart = FALSE
    /\ st = FreshState
    /\ buf = <<>>
    /\ seenIds = {}
    /\ idx = 0
    /\ offset = 0
    /\ effTotal = 0
    /\ hits = <<>>
    /\ req = NoReq
    /\ prevPage = NoPage
    /\ runWrites = 0
    /\ warnings = {}
    /\ lastEnd = "none"
    /\ runs = 0
    /\ kills = 0
    /\ wiped = FALSE
    /\ history = CleanHistory

\* An output directory without files of the resource.
FetchInit ==
    /\ FetchIdle
    /\ ckptStatus = "absent"
    /\ ckptState = NoPayload
    /\ logExists = FALSE
    /\ logRecs = <<>>

\* ------------------------------------------------------------------------
\* The search API
\* ------------------------------------------------------------------------
\* The API refuses a request whose window exceeds its cap: HTTP 400.
ApiRejects(off, size) == off + size > MaxWindow

\* hits of a page: the matching records in [off, off + size).
Page(recs, off, size) == SubSeq(recs, off + 1, Min(off + size, Len(recs)))

\* item.get("identifier") or item.get("_id", ""), for the records of a
\* fetch: each is named by the non-empty identifier it carries.  Records
\* with and without the two fields are in ItemIdentifier, below.
Identifier(item) == item

\* ------------------------------------------------------------------------
\* fetch_resource: restart, load, count, plan, open
\* ------------------------------------------------------------------------
\* path.unlink() of the checkpoint under --restart
UnlinkState(r, status) == IF r THEN "absent" ELSE status

\* A restart that leaves the output log in place.
UnlinkDataSkipped(r, exists) == exists

\* path.unlink() of the output log under --restart
UnlinkData(r, exists) == IF r THEN FALSE ELSE exists

\* state.dump(state_path): the payload of the whole FetchState, overwriting
\* the file.
Dump(s) ==
    /\ ckptStatus' = "ok"
    /\ ckptState' = DumpPayload(s)

\* Everything the process holds in memory, as a new process finds it.
ResetProcess ==
    /\ buf' = <<>>
    /\ seenIds' = {}
    /\ idx' = 0
    /\ offset' = 0
    /\ effTotal' = 0
    /\ hits' = <<>>
    /\ req' = NoReq
    /\ prevPage' = NoPage
    /\ runWrites' = 0
    /\ warnings' = {}

\* The process is gone: nothing of its memory is left.
ProcessGone ==
    /\ pc' = "idle"
    /\ st' = FreshState
    /\ restart' = FALSE
    /\ wiped' = FALSE
    /\ ResetProcess

Start(r) ==
    /\ pc = "idle"
    /\ runs < MaxRuns
    /\ runs' = runs + 1
    /\ restart' = r
    /\ wiped' = (r /\ logExists /\ logRecs # <<>>)
    /\ ckptStatus' = UnlinkState(r, ckptStatus)
    /\ ckptState' = IF ckptStatus' = "ok" THEN ckptState ELSE NoPayload
    /\ logExists' = UnlinkData(r, logExists)
    /\ logRecs' = IF logExists' THEN logRecs ELSE <<>>
    /\ history' = IF r THEN CleanHistory ELSE history
    /\ ResetProcess
    /\ IF ckptStatus' # "absent" /\ logExists'
         THEN IF ckptStatus' = "malformed"
                THEN \* FetchState.load raises: the run stops here
                     /\ pc' = "idle"
                     /\ lastEnd' = "unreadable"
                     /\ st' = FreshState
                ELSE /\ pc' = "loaded"
                     /\ lastEnd' = "running"
                     /\ st' = Load(ckptState)
         ELSE /\ pc' = "loaded"
              /\ lastEnd' = "running"
              /\ st' = FreshState
    /\ UNCHANGED << svars, pvars, world, pageSize, kills >>

\* A total asked for whatever the mode of the loaded state.
AsksTotalInAnyMode(s) == s.total = NoTotal \/ s.total <= MaxWindow \/ s.mode # "linear"

\* The branch of fetch_resource that asks for the total.
AsksTotal(s) ==
    s.mode = "linear" /\ (s.total = NoTotal \/ s.total <= MaxWindow)

\* compute_segments as fetch_resource sees it: the plan of this world.
ComputedSegments == world.plan

\* total = query_total(...); state.total = total; state.dump(state_path)
QueryTotal ==
    /\ pc = "loaded"
    /\ IF AsksTotal(st)
         THEN /\ st' = [st EXCEPT !.total = world.total]
              /\ Dump(st')
              /\ pc' = "counted"
         ELSE IF st.mode = "segmented" /\ st.segments = <<>>
                THEN /\ st' = [st EXCEPT !.segments = ComputedSegments,
                                         !.segment_field = segmentField]
                     /\ Dump(st')
                     /\ pc' = "open"
                ELSE /\ pc' = "open"
                     /\ UNCHANGED << st, ckptStatus, ckptState >>
    /\ UNCHANGED << svars, pvars, world, pageSize, logExists, logRecs, restart, buf, seenIds,
                    idx, offset, effTotal, hits, req, prevPage, runWrites,
                    warnings, lastEnd, runs, kills, wiped, history >>

\* if total > max_window: switch to segmented, plan, dump
SwitchMode ==
    /\ pc = "counted"
    /\ IF st.total > MaxWindow
         THEN /\ st' = [st EXCEPT !.mode = "segmented",
                                  !.segments = ComputedSegments,
                                  !.segment_field = segmentField,
                                  !.segment_index = 0,
                                  !.segment_offset = 0]
              /\ Dump(st')
         ELSE UNCHANGED << st, ckptStatus, ckptState >>
    /\ pc' = "open"
    /\ UNCHANGED << svars, pvars, world, pageSize, logExists, logRecs, restart, buf, seenIds,
                    idx, offset, effTotal, hits, req, prevPage, runWrites,
                    warnings, lastEnd, runs, kills, wiped, history >>

\* with data_path.open("a"): the log is created if absent; the fetcher's
\* locals are initialised from the state.
OpenLog ==
    /\ pc = "open"
    /\ logExists' = TRUE
    /\ IF st.mode = "segmented"
         THEN /\ pc' = "seg_loop"
              /\ idx' = st.segment_index
              /\ offset' = 0
         ELSE /\ pc' = "lin_request"
              /\ idx' = 0
              /\ offset' = st.next_offset
    /\ seenIds' = {}
    /\ UNCHANGED << svars, pvars, world, pageSize, ckptStatus, ckptState, logRecs, restart,
                    st, buf, effTotal, hits, req, prevPage, runWrites, warnings,
                    lastEnd, runs, kills, wiped, history >>

\* ------------------------------------------------------------------------
\* fetch_linear
\* ------------------------------------------------------------------------
\* request_payload(size=page_size, offset=offset, query="*"), then either the
\* break on an empty page or the write of every hit to data_file.
LinRequest ==
    /\ pc = "lin_request"
    /\ req' = [offset |-> offset, size |-> pageSize, prev |-> prevPage,
               status |-> IF ApiRejects(offset, pageSize) THEN 400 ELSE 200]
    /\ IF ApiRejects(offset, pageSize)
         THEN \* requests.HTTPError leaves fetch_linear and fetch_resource
              /\ pc' = "closing"
              /\ lastEnd' = "rejected"
              /\ UNCHANGED << hits, buf, runWrites >>
         ELSE LET got == Page(RootRecs(world.total), offset, pageSize) IN
              IF got = <<>>
                THEN /\ pc' = "closing"
                     /\ lastEnd' = "done"
                     /\ UNCHANGED << hits, buf, runWrites >>
                ELSE /\ hits' = got
                     /\ buf' = buf \o got
                     /\ runWrites' = runWrites + Len(got)
                     /\ pc' = "lin_dump"
                     /\ UNCHANGED lastEnd
    /\ UNCHANGED << svars, pvars, world, pageSize, ckptStatus, ckptState, logExists, logRecs,
                    restart, st, seenIds, idx, offset, effTotal, prevPage,
                    warnings, runs, kills, wiped, history >>

\* offset += len(hits); state.next_offset = offset; state.total = total
LinearAdvance(s, off, n) ==
    [s EXCEPT !.next_offset = off, !.total = n]

\* The rest of the loop body: advance, dump, and the test offset >= total.
LinDump ==
    /\ pc = "lin_dump"
    /\ offset' = offset + Len(hits)
    /\ prevPage' = [offset |-> offset, end |-> offset']
    /\ st' = LinearAdvance(st, offset', world.total)
    /\ Dump(st')
    /\ hits' = <<>>
    /\ IF offset' >= world.total
         THEN pc' = "closing" /\ lastEnd' = "done"
         ELSE pc' = "lin_request" /\ UNCHANGED lastEnd
    /\ UNCHANGED << svars, pvars, world, pageSize, logExists, logRecs, restart, buf, seenIds,
                    idx, effTotal, req, runWrites, warnings, runs, kills,
                    wiped, history >>

\* ------------------------------------------------------------------------
\* fetch_segmented
\* ------------------------------------------------------------------------
\* segments = state.segments or [{"prefix": "", "total": 0}]
Segments(s) ==
    IF s.segments = <<>> THEN << [prefix |-> "", total |-> 0] >> ELSE s.segments

\* A segment's end that advances the index and keeps the offset.
SegmentDoneKeepsOffset(s, i) == [s EXCEPT !.segment_index = i + 1]

\* state.segment_index = idx + 1; state.segment_offset = 0
SegmentDone(s, i) ==
    [s EXCEPT !.segment_index = i + 1, !.segment_offset = 0]

\* Progress that records the segment but not the offset reached in it.
SegmentProgressWithoutOffset(s, i, off) == [s EXCEPT !.segment_index = i]

\* state.segment_index = idx; state.segment_offset = offset
SegmentProgress(s, i, off) ==
    [s EXCEPT !.segment_index = i, !.segment_offset = off]

\* effective_segment_total = min(segment_total, max_allowed_offset + 1)
\* A segment total taken as it is, whatever the window.
EffectiveTotalUncapped(segmentTotal) == segmentTotal

\* effective_segment_total = min(segment_total, max_allowed_offset + 1)
EffectiveTotal(segmentTotal) == Min(segmentTotal, (MaxWindow - 1) + 1)

\* warnings.append({"type": "segment_exceeds_limit", ...})
SegmentExceedsLimit(segment) ==
    [ type |-> "segment_exceeds_limit",
      prefix |-> segment.prefix,
      segment_total |-> segment.total,
      max_allowed_offset |-> MaxWindow - 1,
      effective_segment_total |-> EffectiveTotal(segment.total),
      records_skipped |-> segment.total - EffectiveTotal(segment.total) ]

\* size = min(page_size, remaining_in_segment, max_size_for_offset)
RequestSize(off, eff) == Min(pageSize, Min(eff - off, MaxWindow - off))

\* The loop over the hits: a hit whose identifier was seen is skipped, the
\* others are marked seen and written.  Result: [out, seen].
RECURSIVE WriteUnseen(_, _)
WriteUnseen(items, ids) ==
    IF items = <<>>
      THEN [out |-> <<>>, seen |-> ids]
      ELSE LET item == Head(items)
               id == Identifier(item)
           IN  IF id \in ids
                 THEN WriteUnseen(Tail(items), ids)
                 ELSE LET rest == WriteUnseen(Tail(items), ids \cup {id})
                      IN  [out |-> <<item>> \o rest.out, seen |-> rest.seen]

\* Head of the for loop: the end of the walk, a segment of total 0, or the
\* set-up of a segment (its resume offset, its effective total, the warning).
SegLoop ==
    /\ pc = "seg_loop"
    /\ IF idx >= Len(Segments(st))
         THEN /\ pc' = "closing"
              /\ lastEnd' = "done"
              /\ UNCHANGED << st, ckptStatus, ckptState, idx, offset, effTotal,
                              warnings >>
         ELSE LET segment == Segments(st)[idx + 1] IN
              IF segment.total = 0
                THEN /\ st' = SegmentDone(st, idx)
                     /\ Dump(st')
                     /\ idx' = idx + 1
                     /\ offset' = 0
                     /\ UNCHANGED << pc, lastEnd, effTotal, warnings >>
                ELSE /\ offset' = IF idx = st.segment_index
                                    THEN st.segment_offset ELSE 0
                     /\ effTotal' = EffectiveTotal(segment.total)
                     /\ warnings' = IF segment.total > (MaxWindow - 1) + 1
                                      THEN warnings \cup {SegmentExceedsLimit(segment)}
                                      ELSE warnings
                     /\ pc' = "seg_page"
                     /\ UNCHANGED << st, ckptStatus, ckptState, idx, lastEnd >>
    /\ UNCHANGED << svars, pvars, world, pageSize, logExists, logRecs, restart, buf, seenIds,
                    hits, req, prevPage, runWrites, runs, kills, wiped, history >>

\* What the API answers a page request of a segment with: the page, or 400
\* for a window position it does not accept (never the start of a query).
PageStatuses(off) == IF off > 0 THEN {200, 400} ELSE {200}

\* A warning that names the segment but not the offset.
ApiLimitHitWithoutOffset(prefix, off) == [type |-> "api_limit_hit", prefix |-> prefix]

\* warnings.append({"type": "api_limit_hit", ...}) in the except clause
ApiLimitHit(prefix, off) == [type |-> "api_limit_hit", prefix |-> prefix, offset |-> off]

\* One pass of the while loop up to the write of the hits.  A 400 is
\* recorded and breaks the loop; any other HTTPError is re-raised
\* (RequestFails).
SegPage ==
    /\ pc = "seg_page"
    /\ LET segment == Segments(st)[idx + 1]
           size == RequestSize(offset, effTotal)
       IN  IF ~(offset < effTotal) \/ size <= 0
             THEN /\ pc' = "seg_end"
                  /\ UNCHANGED << req, hits, buf, seenIds, runWrites, warnings >>
             ELSE \E status \in PageStatuses(offset) :
                  /\ req' = [offset |-> offset, size |-> size, prev |-> prevPage,
                             status |-> IF ApiRejects(offset, size) THEN 400 ELSE status]
                  /\ IF req'.status = 400
                       THEN /\ warnings' = warnings \cup {ApiLimitHit(segment.prefix, offset)}
                            /\ pc' = "seg_end"
                            /\ UNCHANGED << hits, buf, seenIds, runWrites >>
                       ELSE LET got == Page(SegRecs(segment.prefix), offset, size) IN
                            IF got = <<>>
                              THEN /\ pc' = "seg_end"
                                   /\ UNCHANGED << hits, buf, seenIds,
                                                   runWrites, warnings >>
                              ELSE LET w == WriteUnseen(got, seenIds) IN
                                   /\ hits' = got
                                   /\ buf' = buf \o w.out
                                   /\ seenIds' = w.seen
                                   /\ runWrites' = runWrites + Len(w.out)
                                   /\ pc' = "seg_dump"
                                   /\ UNCHANGED warnings
    /\ UNCHANGED << svars, pvars, world, pageSize, ckptStatus, ckptState, logExists, logRecs,
                    restart, st, idx, offset, effTotal, prevPage, lastEnd, runs,
                    kills, wiped, history >>

\* offset += len(hits); the dump of the progress; the test offset >= total.
SegDump ==
    /\ pc = "seg_dump"
    /\ offset' = offset + Len(hits)
    /\ prevPage' = [offset |-> offset, end |-> offset']
    /\ st' = SegmentProgress(st, idx, offset')
    /\ Dump(st')
    /\ hits' = <<>>
    /\ pc' = IF offset' >= Segments(st)[idx + 1].total THEN "seg_end" ELSE "seg_page"
    /\ UNCHANGED << svars, pvars, world, pageSize, logExists, logRecs, restart, buf, seenIds,
                    idx, effTotal, req, runWrites, warnings, lastEnd, runs,
                    kills, wiped, history >>

\* After the while loop: the segment is done.
SegEnd ==
    /\ pc = "seg_end"
    /\ st' = SegmentDone(st, idx)
    /\ Dump(st')
    /\ idx' = idx + 1
    /\ offset' = 0
    /\ pc' = "seg_loop"
    /\ UNCHANGED << svars, pvars, world, pageSize, logExists, logRecs, restart, buf, seenIds,
                    effTotal, hits, req, prevPage, runWrites, warnings, lastEnd,
                    runs, kills, wiped, history >>

\* ------------------------------------------------------------------------
\* The output log's buffer, the end of a run, failures and kills
\* ------------------------------------------------------------------------
FileOpen == pc \in {"lin_request", "lin_dump", "seg_loop", "seg_page",
                    "seg_dump", "seg_end", "closing"}

\* data_file is a buffered text file and is never flushed explicitly: the
\* buffer reaches the file whenever it fills, some whole records at a time.
Flush ==
    /\ FileOpen
    /\ buf # <<>>
    /\ \E k \in 1..Len(buf) :
         /\ logRecs' = logRecs \o SubSeq(buf, 1, k)
         /\ buf' = SubSeq(buf, k + 1, Len(buf))
    /\ UNCHANGED << svars, pvars, world, pageSize, ckptStatus, ckptState, logExists, pc,
                    restart, st, seenIds, idx, offset, effTotal, hits, req,
                    prevPage, runWrites, warnings, lastEnd, runs, kills, wiped,
                    history >>

\* The with block is left (normally or by an exception): the file is closed,
\* which flushes it, and the run is over.
CloseLog ==
    /\ pc = "closing"
    /\ logRecs' = logRecs \o buf
    /\ ProcessGone
    /\ UNCHANGED << svars, pvars, world, pageSize, ckptStatus, ckptState, logExists, lastEnd,
                    runs, kills, history >>

\* The next step of the process sends a request.
AboutToRequest ==
    \/ pc = "loaded" /\ (AsksTotal(st) \/ (st.mode = "segmented" /\ st.segments = <<>>))
    \/ pc = "counted" /\ st.total > MaxWindow
    \/ pc = "lin_request"
    \/ pc = "seg_page" /\ offset < effTotal /\ RequestSize(offset, effTotal) > 0

\* request_payload gives up (retries exhausted, or an HTTP error that is not
\* handled): the exception leaves fetch_resource.
RequestFails ==
    /\ AboutToRequest
    /\ lastEnd' = "error"
    /\ history' = [history EXCEPT !.failed = TRUE]
    /\ IF FileOpen
         THEN /\ pc' = "closing"
              /\ UNCHANGED << logRecs, st, restart, wiped, buf, seenIds, idx,
                              offset, effTotal, hits, req, prevPage, runWrites,
                              warnings >>
         ELSE /\ ProcessGone
              /\ UNCHANGED logRecs
    /\ UNCHANGED << svars, pvars, world, pageSize, ckptStatus, ckptState, logExists, runs,
                    kills >>

\* The next step of the process writes the checkpoint file.
AboutToDump ==
    \/ pc = "loaded" /\ (AsksTotal(st) \/ (st.mode = "segmented" /\ st.segments = <<>>))
    \/ pc = "counted" /\ st.total > MaxWindow
    \/ pc \in {"lin_dump", "seg_dump", "seg_end"}
    \/ pc = "seg_loop" /\ idx < Len(Segments(st)) /\ Segments(st)[idx + 1].total = 0

MidSegment == pc \in {"seg_page", "seg_dump", "seg_end"}

\* The process is terminated from outside: its memory, the unflushed buffer
\* included, is lost; the files stay as they are.
Kill ==
    /\ pc # "idle"
    /\ kills < MaxKills
    /\ kills' = kills + 1
    /\ lastEnd' = "killed"
    /\ history' = [history EXCEPT !.killed = TRUE,
                                  !.killedMidSegment = @ \/ MidSegment]
    /\ ProcessGone
    /\ UNCHANGED << svars, pvars, world, pageSize, ckptStatus, ckptState, logExists, logRecs,
                    runs >>

\* The process is terminated inside state.dump, between the truncating open
\* and the end of the write: the checkpoint file is left incomplete.
KillInDump ==
    /\ AboutToDump
    /\ kills < MaxKills
    /\ kills' = kills + 1
    /\ lastEnd' = "killed"
    /\ history' = [history EXCEPT !.killed = TRUE,
                                  !.killedMidSegment = @ \/ MidSegment]
    /\ ckptStatus' = "malformed"
    /\ ckptState' = NoPayload
    /\ ProcessGone
    /\ UNCHANGED << svars, pvars, world, pageSize, logExists, logRecs, runs >>

\* The resource after it has gained records: a total above the window.
GrownWorld == [total |-> MaxWindow + 2, plan |-> << [prefix |-> "A", total |-> 2] >>]

\* Between two runs the resource gains records: a total within the window
\* becomes one above it.
DataGrows ==
    /\ pc = "idle"
    /\ 0 < runs /\ runs < MaxRuns
    /\ world.total <= MaxWindow
    /\ world' = GrownWorld
    /\ UNCHANGED << svars, pvars, pageSize, ckptStatus, ckptState, logExists, logRecs, pc,
                    restart, st, buf, seenIds, idx, offset, effTotal, hits, req,
                    prevPage, runWrites, warnings, lastEnd, runs, kills, wiped,
                    history >>

FetchNext ==
    \/ \E r \in BOOLEAN : Start(r)
    \/ QueryTotal
    \/ SwitchMode
    \/ OpenLog
    \/ LinRequest
    \/ LinDump
    \/ SegLoop
    \/ SegPage
    \/ SegDump
    \/ SegEnd
    \/ Flush
    \/ CloseLog
    \/ RequestFails
    \/ Kill
    \/ KillInDump
    \/ DataGrows

Init ==
    FetchInit /\ segmentField = "identifier" /\ PlanIdle /\ CmdIdle /\ ReqIdle
    /\ DedupIdle

Spec == Init /\ [][FetchNext]_vars

\* The output log an earlier fetch of the resource left behind.
EarlierLog == << 1 >>

\* An output directory in which the resource's output log is present and
\* its checkpoint file is not.
LogOnlyInit ==
    /\ FetchIdle
    /\ ckptStatus = "absent"
    /\ ckptState = NoPayload
    /\ logExists = TRUE
    /\ logRecs = EarlierLog
    /\ segmentField = "identifier"
    /\ PlanIdle
    /\ CmdIdle
    /\ ReqIdle
    /\ DedupIdle

LogOnlySpec == LogOnlyInit /\ [][FetchNext]_vars

\* ========================================================================
\* The Segment Planner: compute_segments
\* ========================================================================
\* --segment-max-length
MaxPrefixLength == 2

\* Count responses above the safe limit that one planning run may receive
\* after the root's.
MaxLarge == 2

\* --segment-charset, duplicates removed by fetch_command
Charset == << "D", "O" >>

\* range(2010, 2026) and range(1, 13), shortened
Years == << "2010", "2011" >>

Months == << "01", "02" >>

\* The prefixes the wildcard-suffix strategy applies to.  In the source they
\* are "DRYAD" and "DOI"; here the one-symbol base "D" stands for them so
\* that prefix expansion reaches it below MaxPrefixLength.
WildcardBases == { << "D" >> }

Err == -1

\* What a count query can answer: a total, or an exception (Err).
Counts == {0, 1, SafeLimit, MaxWindow, MaxWindow + 2}

Responses == Counts \cup {Err}

Large(r) == r > SafeLimit

\* str.lower() and str.upper() on the symbols of the model
Lower(c) == CASE c = "D" -> "d" [] c = "O" -> "o" [] OTHER -> c

Upper(c) == CASE c = "d" -> "D" [] c = "o" -> "O" [] OTHER -> c

LowerSeq(w) == [i \in 1..Len(w) |-> Lower(w[i])]

UpperSeq(w) == [i \in 1..Len(w) |-> Upper(w[i])]

\* Order of the symbols as characters: "." < digits < upper case < "_"
CharRank(c) ==
    CASE c = "." -> 0 [] c = "01" -> 1 [] c = "02" -> 2 [] c = "2010" -> 3
      [] c = "2011" -> 4 [] c = "D" -> 5 [] c = "DATE_" -> 6 [] c = "NAME_" -> 7
      [] c = "O" -> 8 [] c = "_" -> 9 [] c = "d" -> 10 [] c = "o" -> 11
      [] OTHER -> 12

\* Queries are kept structured: field, form ("all" is "*", "prefix" is
\* field:text*, "infix" is field:*text*), text.
NoQuery == [field |-> "", form |-> "none", text |-> <<>>]

AllQuery == [field |-> "", form |-> "all", text |-> <<>>]

PrefixQuery(f, w) == [field |-> f, form |-> "prefix", text |-> w]

InfixQuery(f, w) == [field |-> f, form |-> "infix", text |-> w]

HasDot(w) == \E i \in 1..Len(w) : w[i] = "."

DotAt(w) == CHOOSE i \in 1..Len(w) : w[i] = "." /\ \A j \in 1..(i - 1) : w[j] # "."

StartsWithBase(w) ==
    \E b \in WildcardBases :
        Len(w) >= Len(b) /\ SubSeq(UpperSeq(w), 1, Len(b)) = b

\* build_query(prefix, segment_field, wildcard_query)
BuildQuery(prefix, field, wildcardQuery) ==
    IF wildcardQuery # NoQuery THEN wildcardQuery
    ELSE IF prefix = <<>> THEN AllQuery
    ELSE IF field = "_id" /\ HasDot(prefix)
      THEN LET base == SubSeq(prefix, 1, DotAt(prefix) - 1)
               char == SubSeq(prefix, DotAt(prefix) + 1, Len(prefix))
           IN  InfixQuery("_id", LowerSeq(base) \o << "_" >> \o LowerSeq(char))
    ELSE IF field = "name" /\ Head(prefix) = "NAME_"
      THEN PrefixQuery("name", LowerSeq(Tail(prefix)))
    ELSE IF field = "date" /\ Head(prefix) = "DATE_"
      THEN LET date_part == Tail(prefix)
           IN  IF \E i \in 1..Len(date_part) : date_part[i] = "_"
                 THEN PrefixQuery("date", << date_part[1], "-", date_part[Len(date_part)] >>)
                 ELSE PrefixQuery("date", date_part)
    ELSE IF HasDot(prefix) /\ StartsWithBase(prefix)
      THEN LET base == SubSeq(prefix, 1, DotAt(prefix) - 1)
               suffix == SubSeq(prefix, DotAt(prefix) + 1, Len(prefix))
           IN  InfixQuery(field, LowerSeq(base) \o << "." >> \o suffix)
    ELSE PrefixQuery(field, prefix)

PlanInit ==
    /\ segmentField \in {"identifier", "_id"}
    /\ PlanIdle

\* One call of query_total: what it was for, and the query string.
Asked(kind, prefix, q) == [kind |-> kind, prefix |-> prefix, query |-> q]

\* A segment emitted under the prefix of its node's parent.
SegmentOfParent(prefix, n) ==
    [prefix |-> IF prefix = <<>> THEN <<>> ELSE SubSeq(prefix, 1, Len(prefix) - 1),
     total |-> n, wildcard_query |-> NoQuery]

\* {"prefix": prefix, "total": n}
Segment(prefix, n) == [prefix |-> prefix, total |-> n, wildcard_query |-> NoQuery]

QuerySegment(prefix, n, q) == [prefix |-> prefix, total |-> n, wildcard_query |-> q]

\* total = query_total(build_query("", segment_field)) and the early return.
PlanRoot ==
    /\ planPc = "start"
    /\ asked' = Append(asked, Asked("prefix", <<>>, BuildQuery(<<>>, segmentField, NoQuery)))
    /\ \E r \in Responses \cup {MaxWindow + 1} :
         IF r = Err
           THEN /\ planPc' = "raised"
                /\ UNCHANGED << total, pending, seen, result >>
           ELSE /\ total' = r
                /\ IF r <= MaxWindow
                     THEN /\ result' = [segments |-> << Segment(<<>>, r) >>,
                                        field |-> segmentField]
                          /\ planPc' = "returned"
                          /\ UNCHANGED << pending, seen >>
                     ELSE /\ pending' = << [prefix |-> <<>>, total |-> r, depth |-> 0] >>
                          /\ seen' = { <<>> }
                          /\ planPc' = "pop"
                          /\ UNCHANGED result
    /\ UNCHANGED << svars, fvars, segmentField, countsAddUp, segments, node, dateSegments,
                    finalSegments, yearIndex, planWarnings, shortfallWarned,
                    large >>

\* Number of count responses of a loop that are above the safe limit.
LargeIn(resp) == Cardinality({ i \in DOMAIN resp : Large(resp[i]) })

\* The response functions a loop over n symbols may receive.
Answers(n) == { resp \in [1..n -> Responses] : large + LargeIn(resp) <= MaxLarge }

\* warnings.append({...})
Warning(type, n) ==
    [type |-> type, prefix |-> n.prefix, depth |-> n.depth,
     record_count |-> n.total, safe_limit |-> SafeLimit]

\* A depth-capped segment that keeps the node's own count.
CappedSegmentUncapped(n) == Segment(n.prefix, n.total)

\* segments.append({"prefix": prefix, "total": safe_limit})
CappedSegment(n) == Segment(n.prefix, SafeLimit)

\* A depth test that no node meets.
NeverAtMaxDepth(n) == FALSE

\* if depth >= max_prefix_length
AtMaxDepth(n) == n.depth >= MaxPrefixLength

\* pending.popleft() and the three branches that end with `continue`.
PlanPop ==
    /\ planPc = "pop"
    /\ pending # <<>>
    /\ LET n == Head(pending) IN
         /\ pending' = Tail(pending)
         /\ IF n.total = 0
              THEN UNCHANGED << segments, planWarnings, node, planPc >>
            ELSE IF n.total <= SafeLimit
              THEN /\ segments' = Append(segments, Segment(n.prefix, n.total))
                   /\ UNCHANGED << planWarnings, node, planPc >>
            ELSE IF AtMaxDepth(n)
              THEN /\ planWarnings' = planWarnings \cup {Warning("max_depth_exceeded", n)}
                   /\ segments' = Append(segments, CappedSegment(n))
                   /\ UNCHANGED << node, planPc >>
            ELSE /\ node' = n
                 /\ planPc' = "expand"
                 /\ UNCHANGED << segments, planWarnings >>
    /\ UNCHANGED << svars, fvars, segmentField, countsAddUp, total, seen, dateSegments,
                    finalSegments, yearIndex, shortfallWarned, asked, large,
                    result >>

\* The exception handler without its seen.add.
ChildFailedUnmarked(acc, child) == acc

\* except Exception: seen.add(child_prefix)
ChildFailed(acc, child) == [acc EXCEPT !.seen = @ \cup {child}]

\* The try body that never enqueues the child.
ChildCountedNotEnqueued(acc, child, n, depth) ==
    [acc EXCEPT !.seen = @ \cup {child}, !.found = @ \/ n # 0]

\* The try body after the query answered: seen.add, and the enqueueing of a
\* child with a nonzero count.
ChildCounted(acc, child, n, depth) ==
    [acc EXCEPT !.seen = @ \cup {child},
                !.found = @ \/ n # 0,
                !.pending = IF n # 0
                              THEN Append(@, [prefix |-> child, total |-> n,
                                              depth |-> depth + 1])
                              ELSE @]

\* The loop `for char in charset` of prefix expansion, from symbol i on.
\* acc: [pending, seen, asked, found].
RECURSIVE ExpandChildren(_, _, _, _)
ExpandChildren(i, resp, n, acc) ==
    IF i > Len(Charset) THEN acc
    ELSE LET child == Append(n.prefix, Charset[i]) IN
         IF child \in acc.seen
           THEN ExpandChildren(i + 1, resp, n, acc)
           ELSE LET sent == [acc EXCEPT !.asked =
                                 Append(@, Asked("prefix", child,
                                        BuildQuery(child, segmentField, NoQuery)))]
                IN  ExpandChildren(i + 1, resp, n,
                        IF resp[i] = Err
                          THEN ChildFailed(sent, child)
                          ELSE ChildCounted(sent, child, resp[i], n.depth))

\* The sum of the counts a loop over the charset was answered.
RECURSIVE SumFrom(_, _)
SumFrom(i, resp) ==
    IF i > Len(Charset) THEN 0
    ELSE (IF resp[i] = Err THEN 0 ELSE resp[i]) + SumFrom(i + 1, resp)

ChildSum(resp) == SumFrom(1, resp)

\* Sub-segmentation of the popped node, and the choice of what follows when
\* no child was found.
PlanExpand ==
    /\ planPc = "expand"
    /\ \E resp \in Answers(Len(Charset)) :
         LET acc == ExpandChildren(1, resp, node,
                        [pending |-> pending, seen |-> seen, asked |-> asked,
                         found |-> FALSE])
         IN  /\ pending' = acc.pending
             /\ seen' = acc.seen
             /\ asked' = acc.asked
             /\ large' = large + LargeIn(resp)
             /\ countsAddUp' = (countsAddUp /\ ChildSum(resp) = node.total)
             /\ IF acc.found
                  THEN planPc' = "pop" /\ UNCHANGED << yearIndex, dateSegments >>
                ELSE IF node.prefix = <<>> /\ node.total > SafeLimit
                        /\ segmentField = "identifier"
                  THEN planPc' = "date" /\ yearIndex' = 1 /\ dateSegments' = <<>>
                ELSE planPc' = "wildcard" /\ UNCHANGED << yearIndex, dateSegments >>
    /\ UNCHANGED << svars, fvars, segmentField, total, segments, node, finalSegments,
                    planWarnings, shortfallWarned, result >>

\* The fields the year probe tries in turn.
DateFields == << "date", "dateModified", "datePublished" >>

\* The queries a year's probe sent when its k-th query was the last one.
RECURSIVE YearProbes(_, _)
YearProbes(year, k) ==
    IF k = 0 THEN <<>>
    ELSE Append(YearProbes(year, k - 1),
                Asked("date", << "DATE_", year >>, PrefixQuery(DateFields[k], << year >>)))

\* One iteration of `for year in years`: the probes before the k-th answered
\* 0, the k-th answered r (a total, or an exception that skips the year).
PlanYear ==
    /\ planPc = "date"
    /\ \E k \in 1..Len(DateFields), r \in Responses :
         /\ r = 0 => k = Len(DateFields)
         /\ Large(r) => large < MaxLarge
         /\ LET year == Years[yearIndex]
                found == IF r > 0
                           THEN Append(dateSegments,
                                  QuerySegment(<< "DATE_", year >>, r,
                                               PrefixQuery(DateFields[k], << year >>)))
                           ELSE dateSegments
            IN  /\ asked' = asked \o YearProbes(year, k)
                /\ large' = IF Large(r) THEN large + 1 ELSE large
                /\ dateSegments' = found
                /\ yearIndex' = yearIndex + 1
                /\ planPc' = IF yearIndex < Len(Years) THEN "date"
                             ELSE IF found # <<>> THEN "months"
                             ELSE "name"
    /\ UNCHANGED << svars, fvars, segmentField, countsAddUp, total, pending, seen, segments, node,
                    finalSegments, planWarnings, shortfallWarned, result >>

\* The sub-segments of one over-limit fallback segment: every nonzero answer
\* becomes a segment with the answered total; none at all leaves the parent,
\* capped.  subs[i] is the i-th sub-segment's [prefix, query].
RECURSIVE SubSegments(_, _, _)
SubSegments(i, resp, subs) ==
    IF i > Len(subs) THEN <<>>
    ELSE (IF resp[i] # Err /\ resp[i] > 0
            THEN << QuerySegment(subs[i].prefix, resp[i], subs[i].query) >>
            ELSE <<>>) \o SubSegments(i + 1, resp, subs)

Refined(seg, resp, subs) ==
    LET found == SubSegments(1, resp, subs)
    IN  IF found # <<>> THEN found
        ELSE << QuerySegment(seg.prefix, SafeLimit, seg.wildcard_query) >>

SubAsked(kind, subs) == [i \in 1..Len(subs) |-> Asked(kind, subs[i].prefix, subs[i].query)]

\* month_query = f"date:{year}-{month:02d}*", prefix f"DATE_{year}_{month:02d}"
MonthSubs(seg) ==
    LET year == seg.prefix[2] IN
    [i \in 1..Len(Months) |->
        [prefix |-> << "DATE_", year, "_", Months[i] >>,
         query |-> PrefixQuery("date", << year, "-", Months[i] >>)]]

\* One iteration of `for seg in date_segments`, and after the last one
\* `return final_segments, "date"`.
PlanMonths ==
    /\ planPc = "months"
    /\ LET seg == Head(dateSegments) IN
         /\ dateSegments' = Tail(dateSegments)
         /\ IF seg.total <= SafeLimit
              THEN /\ finalSegments' = Append(finalSegments, seg)
                   /\ UNCHANGED << asked, large >>
              ELSE \E resp \in Answers(Len(Months)) :
                     /\ finalSegments' = finalSegments \o Refined(seg, resp, MonthSubs(seg))
                     /\ asked' = asked \o SubAsked("date", MonthSubs(seg))
                     /\ large' = large + LargeIn(resp)
         /\ IF Tail(dateSegments) = <<>>
              THEN /\ result' = [segments |-> finalSegments', field |-> "date"]
                   /\ planPc' = "returned"
              ELSE UNCHANGED << result, planPc >>
    /\ UNCHANGED << svars, fvars, segmentField, countsAddUp, total, pending, seen, segments, node,
                    yearIndex, planWarnings, shortfallWarned >>

\* name_query = f"name:{char}*", prefix f"NAME_{char.upper()}"
NameSubs ==
    [i \in 1..Len(Charset) |->
        [prefix |-> << "NAME_", Upper(Charset[i]) >>,
         query |-> PrefixQuery("name", << Charset[i] >>)]]

\* The loop `for char in charset` of the name fallback.  With no name
\* segment the root falls through to the wildcard branch.
PlanName ==
    /\ planPc = "name"
    /\ \E resp \in Answers(Len(Charset)) :
         LET found == SubSegments(1, resp, NameSubs) IN
         /\ asked' = asked \o SubAsked("name", NameSubs)
         /\ large' = large + LargeIn(resp)
         /\ dateSegments' = found
         /\ planPc' = IF found # <<>> THEN "subname" ELSE "wildcard"
    /\ UNCHANGED << svars, fvars, segmentField, countsAddUp, total, pending, seen, segments, node,
                    finalSegments, yearIndex, planWarnings, shortfallWarned,
                    result >>

\* sub_query = f"name:{prefix_char.lower()}{char2}*",
\* prefix f"NAME_{prefix_char}{char2.upper()}"
SecondCharSubs(seg) ==
    LET prefix_char == seg.prefix[2] IN
    [i \in 1..Len(Charset) |->
        [prefix |-> << "NAME_", prefix_char, Upper(Charset[i]) >>,
         query |-> PrefixQuery("name", << Lower(prefix_char), Charset[i] >>)]]

\* One iteration of `for seg in name_segments`, and after the last one
\* `return final_name_segments, "name"`.
PlanSubName ==
    /\ planPc = "subname"
    /\ LET seg == Head(dateSegments) IN
         /\ dateSegments' = Tail(dateSegments)
         /\ IF seg.total <= SafeLimit
              THEN /\ finalSegments' = Append(finalSegments, seg)
                   /\ UNCHANGED << asked, large >>
              ELSE \E resp \in Answers(Len(Charset)) :
                     /\ finalSegments' = finalSegments \o Refined(seg, resp, SecondCharSubs(seg))
                     /\ asked' = asked \o SubAsked("name", SecondCharSubs(seg))
                     /\ large' = large + LargeIn(resp)
         /\ IF Tail(dateSegments) = <<>>
              THEN /\ result' = [segments |-> finalSegments', field |-> "name"]
                   /\ planPc' = "returned"
              ELSE UNCHANGED << result, planPc >>
    /\ UNCHANGED << svars, fvars, segmentField, countsAddUp, total, pending, seen, segments, node,
                    yearIndex, planWarnings, shortfallWarned >>

\* wildcard_query = f"{segment_field}:*{prefix.lower()}.{char}*"
WildcardQuery(prefix, char) ==
    InfixQuery(segmentField, LowerSeq(prefix) \o << ".", char >>)

\* The loop `for char in charset` of the wildcard strategy, from symbol i on.
\* acc: [pending, seen, asked, found].
RECURSIVE WildcardChildren(_, _, _, _)
WildcardChildren(i, resp, n, acc) ==
    IF i > Len(Charset) THEN acc
    ELSE LET wildcard_prefix == n.prefix \o << ".", Charset[i] >>
             sent == [acc EXCEPT !.asked =
                         Append(@, Asked("wildcard", wildcard_prefix,
                                         WildcardQuery(n.prefix, Charset[i])))]
         IN  WildcardChildren(i + 1, resp, n,
                 IF resp[i] = Err \/ resp[i] = 0 THEN sent
                 ELSE IF wildcard_prefix \in sent.seen
                   THEN [sent EXCEPT !.found = TRUE]
                 ELSE [sent EXCEPT !.found = TRUE,
                                   !.seen = @ \cup {wildcard_prefix},
                                   !.pending = Append(@, [prefix |-> wildcard_prefix,
                                                          total |-> resp[i],
                                                          depth |-> n.depth + 1])])

\* prefix.upper() in ("DRYAD", "DOI") and depth < max_prefix_length
TriesWildcard(n) == UpperSeq(n.prefix) \in WildcardBases /\ n.depth < MaxPrefixLength

\* `if not children_found and prefix_total > safe_limit`: the wildcard
\* strategy, or the capped segment with its warning.
PlanWildcard ==
    /\ planPc = "wildcard"
    /\ planPc' = "pop"
    /\ IF TriesWildcard(node)
         THEN \E resp \in Answers(Len(Charset)) :
                LET acc == WildcardChildren(1, resp, node,
                               [pending |-> pending, seen |-> seen,
                                asked |-> asked, found |-> FALSE])
                IN  /\ pending' = acc.pending
                    /\ seen' = acc.seen
                    /\ asked' = acc.asked
                    /\ large' = large + LargeIn(resp)
                    /\ IF acc.found
                         THEN UNCHANGED << planWarnings, segments >>
                         ELSE /\ planWarnings' = planWarnings \cup
                                    {Warning("no_children_found", node)}
                              /\ segments' = Append(segments,
                                    Segment(node.prefix, SafeLimit))
         ELSE /\ planWarnings' = planWarnings \cup {Warning("no_children_found", node)}
              /\ segments' = Append(segments, Segment(node.prefix, SafeLimit))
              /\ UNCHANGED << pending, seen, asked, large >>
    /\ UNCHANGED << svars, fvars, segmentField, countsAddUp, total, node, dateSegments,
                    finalSegments, yearIndex, shortfallWarned, result >>

\* sum(s.get("total", 0) for s in segments)
RECURSIVE SegmentSum(_)
SegmentSum(segs) ==
    IF segs = <<>> THEN 0 ELSE Head(segs).total + SegmentSum(Tail(segs))

\* segment_sum < total * 0.9
Incomplete(segment_sum, n) == 10 * segment_sum < 9 * n

\* Python's order of two strings over the model's symbols.
RECURSIVE PrefixBefore(_, _)
PrefixBefore(a, b) ==
    IF a = <<>> THEN b # <<>>
    ELSE IF b = <<>> THEN FALSE
    ELSE IF Head(a) = Head(b) THEN PrefixBefore(Tail(a), Tail(b))
    ELSE CharRank(Head(a)) < CharRank(Head(b))

\* The place of the i-th item after a stable sort on the prefix: behind the
\* items with a smaller prefix and the earlier items with the same prefix.
SortedPlace(segs, i) ==
    1 + Cardinality({ j \in 1..Len(segs) :
                        \/ PrefixBefore(segs[j].prefix, segs[i].prefix)
                        \/ segs[j].prefix = segs[i].prefix /\ j < i })

\* segments.sort(key=lambda item: item["prefix"]): a stable sort.
SortByPrefix(segs) ==
    [k \in 1..Len(segs) |->
        segs[CHOOSE i \in 1..Len(segs) : SortedPlace(segs, i) = k]]

\* After the while loop: the completeness check, the sort, the return.
PlanFinish ==
    /\ planPc = "pop"
    /\ pending = <<>>
    /\ shortfallWarned' = Incomplete(SegmentSum(segments), total)
    /\ segments' = SortByPrefix(segments)
    /\ result' = [segments |-> IF segments' # <<>> THEN segments'
                                ELSE << Segment(<<>>, total) >>,
                  field |-> segmentField]
    /\ planPc' = "returned"
    /\ UNCHANGED << svars, fvars, segmentField, countsAddUp, total, pending, seen, node,
                    dateSegments, finalSegments, yearIndex, planWarnings,
                    asked, large >>

PlanNext ==
    \/ PlanRoot
    \/ PlanPop
    \/ PlanExpand
    \/ PlanYear
    \/ PlanMonths
    \/ PlanName
    \/ PlanSubName
    \/ PlanWildcard
    \/ PlanFinish

\* actual_segment_field = state.segment_field or segment_field
ActualSegmentField(s, field) ==
    IF s.segment_field # NoField /\ s.segment_field # "" THEN s.segment_field ELSE field

\* query = build_query(prefix, segment_field, wildcard_query=segment.get("wildcard_query"))
SegmentQuery(segment, field) == BuildQuery(segment.prefix, field, segment.wildcard_query)

\* The FetchState fetch_resource holds after planning: the planner's
\* segments and the field it returned.
PlannedState(res) ==
    [FreshState EXCEPT !.mode = "segmented", !.segments = res.segments,
                       !.segment_field = res.field]

\* A planning run on its own; the fetch engine stays idle.
PlanSpecInit ==
    /\ PlanInit
    /\ CmdIdle
    /\ ReqIdle
    /\ DedupIdle
    /\ FetchInit
    /\ world = [total |-> 0, plan |-> <<>>]
    /\ pageSize = 1

PlanSpec == PlanSpecInit /\ [][PlanNext]_vars

\* The planning run as the interpreter executes it: a call that can take
\* its next step takes it.
PlanLiveSpec == PlanSpecInit /\ [][PlanNext]_vars /\ WF_vars(PlanNext)

\* ========================================================================
\* A run over several resources: fetch_command
\* ========================================================================
\* What fetch_resource can raise: FetchState.load on a malformed checkpoint
\* (json.JSONDecodeError), raise_for_status (requests.HTTPError), the
\* network errors request_payload re-raises after its last attempt, and the
\* adapter's RetryError after its retries on 429/5xx are used up.
RequestErrors ==
    {"HTTPError", "ChunkedEncodingError", "ConnectionError", "Timeout", "RetryError"}

\* except (requests.HTTPError, ChunkedEncodingError, ConnectionError, Timeout)
Caught == {"HTTPError", "ChunkedEncodingError", "ConnectionError", "Timeout"}

\* The files of a resource: checkpoint status, whether the output log
\* exists, and what a readable checkpoint says was fetched, of what total.
ReadableDisk(f) == [ckpt |-> "ok", log |-> TRUE, fetched |-> f, total |-> 1]

Disks ==
    { AbsentDisk,
      [ckpt |-> "malformed", log |-> TRUE, fetched |-> 0, total |-> 1],
      [ckpt |-> "malformed", log |-> FALSE, fetched |-> 0, total |-> 1],
      ReadableDisk(0), ReadableDisk(1) }

\* if restart: unlink both files
AfterRestart(d, r) == IF r THEN AbsentDisk ELSE d

\* if state_path.exists() and data_path.exists(): state = FetchState.load(...)
LoadsCheckpoint(d) == d.ckpt # "absent" /\ d.log

\* fetch_resource for one resource, as fetch_command sees it: the exception
\* it raises, if any, and the files it leaves.
FetchResourceOutcomes(d, r) ==
    LET d0 == AfterRestart(d, r)
        start == IF LoadsCheckpoint(d0) THEN d0.fetched ELSE 0
        progress == { ReadableDisk(f) : f \in start..1 }
    IN  IF LoadsCheckpoint(d0) /\ d0.ckpt = "malformed"
          THEN { [raised |-> "JSONDecodeError", disk |-> d0] }
          ELSE { [raised |-> NoException, disk |-> nd] : nd \in progress } \cup
               { [raised |-> e, disk |-> nd] : e \in RequestErrors,
                                                nd \in progress \cup {d0} }

CmdInit ==
    /\ cmdPc = "fetch"
    /\ cmdRestart \in BOOLEAN
    /\ position = 1
    /\ disk \in [Resources -> Disks]
    /\ called = {}
    /\ raised = [i \in Resources |-> NoException]
    /\ completed_resources = <<>>
    /\ incomplete_resources = <<>>
    /\ failed_resources = <<>>
    /\ summaryWritten = FALSE
    /\ unhandled = NoException

\* try: fetch_resource(...) except (...): an exception of another class
\* leaves the loop and fetch_command.
CmdFetch ==
    /\ cmdPc = "fetch"
    /\ position <= NumResources
    /\ called' = called \cup {position}
    /\ \E o \in FetchResourceOutcomes(disk[position], cmdRestart) :
         /\ disk' = [disk EXCEPT ![position] = o.disk]
         /\ raised' = [raised EXCEPT ![position] = o.raised]
         /\ IF o.raised = NoException \/ o.raised \in Caught
              THEN cmdPc' = "check" /\ UNCHANGED unhandled
              ELSE cmdPc' = "ended" /\ unhandled' = o.raised
    /\ UNCHANGED << fvars, pvars, rvars, dvars, cmdRestart, position, completed_resources,
                    incomplete_resources, failed_resources, summaryWritten >>

\* The check of the state file after the try statement, and the step to the
\* next resource.
CmdCheck ==
    /\ cmdPc = "check"
    /\ LET d == disk[position] IN
         IF d.ckpt = "ok"
           THEN IF d.fetched < d.total
                  THEN /\ incomplete_resources' = Append(incomplete_resources, position)
                       /\ UNCHANGED << completed_resources, failed_resources >>
                  ELSE /\ completed_resources' = Append(completed_resources, position)
                       /\ UNCHANGED << incomplete_resources, failed_resources >>
           ELSE \* no state file, or FetchState.load raised
                /\ failed_resources' = Append(failed_resources, position)
                /\ UNCHANGED << completed_resources, incomplete_resources >>
    /\ position' = position + 1
    /\ cmdPc' = "fetch"
    /\ UNCHANGED << fvars, pvars, rvars, dvars, cmdRestart, disk, called, raised,
                    summaryWritten, unhandled >>

\* After the loop: the summary report, written when a list is non-empty.
CmdSummary ==
    /\ cmdPc = "fetch"
    /\ position > NumResources
    /\ summaryWritten' = (completed_resources # <<>> \/ failed_resources # <<>>
                            \/ incomplete_resources # <<>>)
    /\ cmdPc' = "ended"
    /\ UNCHANGED << fvars, pvars, rvars, dvars, cmdRestart, position, disk, called, raised,
                    completed_resources, incomplete_resources,
                    failed_resources, unhandled >>

CmdNext ==
    \/ CmdFetch
    \/ CmdCheck
    \/ CmdSummary

\* A multi-resource run on its own; the fetch engine and the planner stay
\* idle.
CommandSpecInit ==
    /\ CmdInit
    /\ ReqIdle
    /\ DedupIdle
    /\ FetchInit
    /\ world = [total |-> 0, plan |-> <<>>]
    /\ pageSize = 1
    /\ segmentField = "identifier"
    /\ PlanIdle

CommandSpec == CommandSpecInit /\ [][CmdNext]_vars

\* ========================================================================
\* One request: request_payload over the session of configure_session
\* ========================================================================
\* max_retries of request_payload
MaxRetries == 5

\* Retry(total=5, backoff_factor=2.0, ...)
RetryTotal == 5

BackoffFactor == 2

\* The forcelist with a rejected-request status in it.
StatusForcelistWith404 == {404, 429, 500, 502, 503, 504}

\* status_forcelist=(429, 500, 502, 503, 504)
StatusForcelist == {429, 500, 502, 503, 504}

\* What one HTTP exchange can bring: a status with a complete JSON body, a
\* connection failure, a timeout, a 200 whose body is cut off, a 200 whose
\* body is not JSON.
Status(code) == [kind |-> "status", code |-> code]

Failure(kind) == [kind |-> kind, code |-> 0]

Exchanges ==
    { Status(c) : c \in {200, 400, 404, 429, 500, 501, 503} } \cup
    { Failure(k) : k \in {"connection", "timeout", "truncated", "undecodable"} }

RECURSIVE Pow2(_)
Pow2(n) == IF n = 0 THEN 1 ELSE 2 * Pow2(n - 1)

\* The exception request_payload's try block sees for a failed exchange the
\* adapter does not retry.  A body that is not JSON raises ValueError,
\* re-raised as ChunkedEncodingError.
ExceptionOf(x) ==
    CASE x.kind = "connection" -> "ConnectionError"
      [] x.kind = "timeout" -> "Timeout"
      [] x.kind = "truncated" -> "ChunkedEncodingError"
      [] x.kind = "undecodable" -> "ChunkedEncodingError"
      [] OTHER -> "HTTPError"

\* The adapter retries the exchange itself: a forcelisted status, a
\* connection failure, a timeout.
AdapterRetries(x) ==
    \/ x.kind = "status" /\ x.code \in StatusForcelist
    \/ x.kind \in {"connection", "timeout"}

\* except (ChunkedEncodingError, ConnectionError, Timeout)
LoopRetries(e) == e \in {"ChunkedEncodingError", "ConnectionError", "Timeout"}

\* One HTTP exchange and everything request_payload and the adapter do with
\* its outcome, up to the next exchange, the return or the raise.
ReqSend ==
    /\ reqPc = "sending"
    /\ sends' = sends + 1
    /\ \E x \in Exchanges :
         /\ lastResponse' = x
         /\ IF x = Status(200)
              THEN \* return response.json()
                   /\ reqPc' = "returned"
                   /\ payload' = sends'
                   /\ UNCHANGED << attempt, tries, sleeps, adapterSleeps, error >>
            ELSE IF AdapterRetries(x) /\ tries < RetryTotal
              THEN \* the adapter waits and sends again
                   /\ tries' = tries + 1
                   /\ adapterSleeps' = Append(adapterSleeps, BackoffFactor * Pow2(tries))
                   /\ UNCHANGED << reqPc, attempt, sleeps, error, payload >>
            ELSE IF x.kind = "status" /\ x.code \in StatusForcelist
              THEN \* the adapter's retries are used up: RetryError
                   /\ reqPc' = "raised"
                   /\ error' = "RetryError"
                   /\ UNCHANGED << attempt, tries, sleeps, adapterSleeps, payload >>
            ELSE IF LoopRetries(ExceptionOf(x)) /\ attempt < MaxRetries - 1
              THEN \* time.sleep(2 ** attempt), next attempt
                   /\ sleeps' = Append(sleeps, Pow2(attempt))
                   /\ attempt' = attempt + 1
                   /\ tries' = 0
                   /\ UNCHANGED << reqPc, adapterSleeps, error, payload >>
            ELSE \* the last attempt's network error, or an HTTPError: raise
                 /\ reqPc' = "raised"
                 /\ error' = ExceptionOf(x)
                 /\ UNCHANGED << attempt, tries, sleeps, adapterSleeps, payload >>
    /\ UNCHANGED << fvars, pvars, cvars, dvars >>

ReqNext == ReqSend

\* One request on its own; everything else stays idle.
RequestSpecInit ==
    /\ ReqIdle
    /\ CmdIdle
    /\ DedupIdle
    /\ FetchInit
    /\ world = [total |-> 0, plan |-> <<>>]
    /\ pageSize = 1
    /\ segmentField = "identifier"
    /\ PlanIdle

RequestSpec == RequestSpecInit /\ [][ReqNext]_vars

----------------------------------------------------------------------------
\* The write loop of fetch_segmented over the items of its pages.

\* Items handled by one call.
MaxHits == 3

\* Values an identifier field carries; "" is the empty string.
FieldValues == {"", "a"}

\* The other fields of a record.
RecordNames == {"r1", "r2"}

\* The records the API returns: each with or without "identifier", with or
\* without "_id".
ApiItems ==
    UNION { { [name |-> n],
              [name |-> n, identifier |-> v],
              [name |-> n, _id |-> w],
              [name |-> n, identifier |-> v, _id |-> w] } :
            n \in RecordNames, v \in FieldValues, w \in FieldValues \ {""} }

\* dict.get(key): the value, or None (here "None") without the key.
Get(d, key) == IF key \in DOMAIN d THEN d[key] ELSE "None"

\* dict.get(key, default).
GetOr(d, key, default) == IF key \in DOMAIN d THEN d[key] ELSE default

\* Python's truth value of an Optional[str].
Truthy(v) == v \notin {"None", ""}

\* item.get("identifier") or item.get("_id", "")
ItemIdentifier(it) ==
    IF Truthy(Get(it, "identifier")) THEN Get(it, "identifier")
    ELSE GetOr(it, "_id", "")

\* One pass of "for item in hits": a seen identifier is counted and skipped;
\* otherwise the identifier is added and the item written.
HandleItem ==
    /\ Len(written) + duplicates_skipped < MaxHits
    /\ \E it \in ApiItems :
        /\ lastItem' = it
        /\ IF ItemIdentifier(it) \in seen_identifiers
           THEN /\ duplicates_skipped' = duplicates_skipped + 1
                /\ UNCHANGED << seen_identifiers, written >>
           ELSE /\ seen_identifiers' = seen_identifiers \cup {ItemIdentifier(it)}
                /\ written' = Append(written, it)
                /\ UNCHANGED duplicates_skipped
    /\ UNCHANGED << fvars, pvars, cvars, rvars >>

DedupNext == HandleItem

DedupSpecInit ==
    /\ DedupIdle
    /\ ReqIdle
    /\ CmdIdle
    /\ FetchInit
    /\ world = [total |-> 0, plan |-> <<>>]
    /\ pageSize = 1
    /\ segmentField = "identifier"
    /\ PlanIdle

DedupSpec == DedupSpecInit /\ [][DedupNext]_vars

\* ========================================================================
\* Claims
\* ========================================================================
\* Records of a segment that paging under the window can return.
Reachable(segment) ==
    ToSet(SubSeq(SegRecs(segment.prefix), 1,
                 Min(Len(SegRecs(segment.prefix)), EffectiveTotal(segment.total))))

\* A capped or shortfall segment: its query matches more records than the
\* fetcher will page.
Shortfall(segment) ==
    Len(SegRecs(segment.prefix)) > Min(segment.total, MaxWindow)

\* The record set an uninterrupted segmented run of this world ends with.
UninterruptedRecords ==
    UNION { Reachable(world.plan[k]) : k \in 1..Len(world.plan) }

ShortfallRecords ==
    UNION { ToSet(SegRecs(world.plan[k].prefix)) :
              k \in {j \in 1..Len(world.plan) : Shortfall(world.plan[j])} }

Occurrences(r, s) == Cardinality({i \in 1..Len(s) : s[i] = r})

\* C1: a segmented fetch killed mid-segment and resumed without restart ends
\* with a log holding the records of the uninterrupted run, none twice, none
\* missing but those of a capped/shortfall segment.
C1_ResumeSameRecordSet ==
    ( /\ pc = "idle"
      /\ lastEnd = "done"
      /\ world.total > MaxWindow
      /\ history.killedMidSegment
      /\ ~history.failed )
    => /\ NoDup(logRecs)
       /\ ToSet(logRecs) \subseteq UninterruptedRecords
       /\ UninterruptedRecords \ ToSet(logRecs) \subseteq ShortfallRecords

\* C2: every page request of either fetcher has offset + size <= window_cap.
C2_RequestWithinWindow ==
    req # NoReq => req.offset + req.size <= MaxWindow

\* C3: with total <= window_cap and fixed data, a linear fetch from scratch
\* that nothing interrupts appends exactly total records, and each request
\* starts where the previous page ended, beyond the previous offset.
C3_LinearYieldsTotal ==
    /\ ( /\ pc = "idle"
         /\ lastEnd \in {"done", "rejected"}
         /\ world.total <= MaxWindow
         /\ runs = 1 )
       => Len(logRecs) = world.total
    /\ ( /\ st.mode = "linear"
         /\ req # NoReq
         /\ req.prev # NoPage )
       => (req.offset = req.prev.end /\ req.offset > req.prev.offset)

\* Identifiers that pages of two different segments of the plan return.
InTwoSegments ==
    { r \in UninterruptedRecords :
        \E j, k \in 1..Len(world.plan) :
            j # k /\ r \in Reachable(world.plan[j]) /\ r \in Reachable(world.plan[k]) }

\* C4: in a segmented fetch, an identifier returned by pages of two different
\* segments is in the output log exactly once.
C4_CrossSegmentWrittenOnce ==
    ( /\ pc = "idle"
      /\ lastEnd = "done"
      /\ world.total > MaxWindow
      /\ ~history.killed )
    => \A r \in InTwoSegments : Occurrences(r, logRecs) = 1

\* Records of the pages a checkpoint counts as done.
CountedDone(s) ==
    IF s.mode = "linear"
      THEN ToSet(SubSeq(RootRecs(world.total), 1, s.next_offset))
      ELSE UNION { IF k < s.segment_index + 1
                     THEN Reachable(s.segments[k])
                     ELSE IF k = s.segment_index + 1
                            THEN ToSet(SubSeq(SegRecs(s.segments[k].prefix), 1,
                                               s.segment_offset))
                            ELSE {}
                   : k \in 1..Len(s.segments) }

\* C5: whenever the process is terminated, the persisted checkpoint is behind
\* or equal to the durable log: every page it counts as done is in the log.
C5_CheckpointBehindLog ==
    (pc = "idle" /\ lastEnd = "killed" /\ ckptStatus = "ok")
    => CountedDone(ckptState) \subseteq ToSet(logRecs)

\* C6: between restarts the persisted segment_index never decreases, and a
\* persisted checkpoint with a larger segment_index has segment_offset 0.
C6_SegmentIndexMonotone ==
    [][ (ckptStatus = "ok" /\ ckptStatus' = "ok")
        => /\ ckptState'.segment_index >= ckptState.segment_index
           /\ (ckptState'.segment_index > ckptState.segment_index
                 => ckptState'.segment_offset = 0) ]_vars

C6_Witness ==
    /\ ckptStatus = "ok"
    /\ ckptState.segment_index = 2
    /\ history.killed
    /\ runs > 1

\* C7: a run with the restart flag has deleted checkpoint and output log
\* before fetching, and its fetch starts at next_offset = 0, segment_index =
\* segment_offset = 0, with a log that holds only what this run wrote.
C7_RestartStartsFromZero ==
    restart =>
      /\ pc = "loaded" => (ckptStatus = "absent" /\ ~logExists /\ st = FreshState)
      /\ Len(logRecs) + Len(buf) = runWrites
      /\ (pc \in {"lin_request", "seg_loop", "seg_page"} /\ runWrites = 0 /\ idx = 0)
           => (offset = 0 /\ st.next_offset = 0 /\ st.segment_index = 0
               /\ st.segment_offset = 0)

C7_Witness ==
    /\ restart
    /\ wiped
    /\ req # NoReq
    /\ req.offset = 0
    /\ runWrites > 0


\* ------------------------------------------------------------------------
\* Claims about the Segment Planner (specification PlanSpec)
\* ------------------------------------------------------------------------
\* A segment is marked when a warning of the run names its prefix.
DepthCapped(seg) ==
    \E w \in planWarnings :
        w.prefix = seg.prefix /\ w.type \in {"max_depth_exceeded", "no_children_found"}

\* C8: every segment the planner returns for a root above the window, by
\* prefix expansion or by a fallback, has total <= safe_limit unless it is
\* marked as depth-capped.
C8_SegmentsWithinSafeLimit ==
    (planPc = "returned" /\ total > MaxWindow) =>
        \A i \in 1..Len(result.segments) :
            result.segments[i].total <= SafeLimit \/ DepthCapped(result.segments[i])

\* C9: whenever the planner returns segments whose totals sum to less than
\* 0.9 times the root total, the planning-completeness warning was emitted,
\* whichever return path was taken.
C9_ShortfallWarned ==
    (planPc = "returned" /\ Incomplete(SegmentSum(result.segments), total))
        => shortfallWarned

\* The count queries of prefix expansion and of the wildcard strategy.
ForPrefix(i) == asked[i].kind \in {"prefix", "wildcard"}

C12_LinearOnlyWithinWindow ==
    /\ pc \in {"lin_request", "lin_dump"} => st.total <= MaxWindow
    /\ (pc \in {"lin_request", "lin_dump", "seg_loop", "seg_page", "seg_dump", "seg_end"}
          /\ st.total > MaxWindow)
       => (st.mode = "segmented" /\ st.segments # <<>>)


\* ------------------------------------------------------------------------
\* Claims about a run over several resources (specification CommandSpec)
\* ------------------------------------------------------------------------
InReport(i, list) == \E k \in 1..Len(list) : list[k] = i

\* C13: a failure while fetching one resource (request error after the
\* retries, a rejected 4xx, an unreadable checkpoint) does not abort the run:
\* every resource of the list is fetched, and each failed one is in the
\* end-of-run report as incomplete or failed.
C13_FailureDoesNotAbort ==
    cmdPc = "ended" =>
        /\ called = Resources
        /\ \A i \in Resources :
             raised[i] # NoException =>
                 /\ summaryWritten
                 /\ InReport(i, incomplete_resources) \/ InReport(i, failed_resources)


\* C14: while the checkpoint file is malformed and no restart is requested,
\* a fetch of the resource issues no request and leaves the checkpoint file
\* and the output log as they are (specification Spec).
C14_MalformedCheckpointStops ==
    [][ (ckptStatus = "malformed" /\ ~restart')
        => /\ ckptStatus' = "malformed"
           /\ logExists' = logExists
           /\ logRecs' = logRecs
           /\ req' = req
           /\ pc' \in {"idle", "loaded"} ]_vars


\* ------------------------------------------------------------------------
\* Claims about one request (specification RequestSpec)
\* ------------------------------------------------------------------------
\* The failures the retry policy names: connection failure, timeout,
\* truncated or undecodable success response, HTTP 429, HTTP 5xx.
Transient(x) ==
    \/ x.kind \in {"connection", "timeout", "truncated", "undecodable"}
    \/ x.kind = "status" /\ (x.code = 429 \/ x.code \in 500..599)

\* C15: a request that fails with a transient error is retried with
\* exponential backoff; the attempts are bounded, the first successful
\* exchange's payload is returned, and the request ends with a raised error
\* only when the retries for it are used up.
C15_TransientRetried ==
    /\ sends <= MaxRetries * (RetryTotal + 1)
    /\ \A k \in 1..Len(sleeps) : sleeps[k] = Pow2(k - 1)
    /\ reqPc = "returned" => (lastResponse = Status(200) /\ payload = sends)
    /\ (reqPc = "raised" /\ Transient(lastResponse))
         => (attempt = MaxRetries - 1 \/ tries = RetryTotal)

\* A 4xx status other than 429.
Rejected(x) == x.kind = "status" /\ x.code \in 400..499 /\ x.code # 429

\* C16: the exchange answered with a 4xx other than 429 is the request's
\* last: nothing is retried, nothing sleeps, and HTTPError is raised to the
\* caller.
C16_RejectedNotRetried ==
    /\ [](Rejected(lastResponse) => (reqPc = "raised" /\ error = "HTTPError"))
    /\ [][ (sends' = sends + 1 /\ Rejected(lastResponse'))
           => /\ reqPc' = "raised"
              /\ error' = "HTTPError"
              /\ sleeps' = sleeps
              /\ adapterSleeps' = adapterSleeps
              /\ attempt' = attempt
              /\ tries' = tries ]_vars

\* A request whose only exchange was answered 404.
C16_Witness ==
    /\ reqPc = "raised"
    /\ error = "HTTPError"
    /\ lastResponse = Status(404)
    /\ sends = 1
    /\ sleeps = <<>>
    /\ adapterSleeps = <<>>


\* No node was capped at the depth limit or for want of children.
NothingCapped == planWarnings = {}

\* C17: when at every expanded prefix the nonzero child counts add up to the
\* parent's count and no prefix reaches the depth cap, the segments the
\* planner returns for a root above the window sum to the root total, each
\* total between 1 and safe_limit (specification PlanSpec).
C17_SegmentsSumToRoot ==
    (planPc = "returned" /\ total > MaxWindow /\ countsAddUp /\ NothingCapped)
    => /\ SegmentSum(result.segments) = total
       /\ \A i \in 1..Len(result.segments) :
            result.segments[i].total >= 1 /\ result.segments[i].total <= SafeLimit
       /\ Len(result.segments) * SafeLimit >= total

\* A plan of three segments for the largest root, from two levels of
\* expansion whose counts add up.
C17_Witness ==
    /\ planPc = "returned"
    /\ total = MaxWindow + 2
    /\ countsAddUp
    /\ NothingCapped
    /\ Len(result.segments) >= 3
    /\ \E i \in 1..Len(result.segments) : Len(result.segments[i].prefix) = 2

\* The first page request of a run is made in this step.
FirstRequest == req = NoReq /\ req' # NoReq

\* The position the checkpoint file holds, as a load reads it.
Stored == Load(ckptState)

AboutToRequestPage ==
    \/ pc = "lin_request"
    \/ pc = "seg_page" /\ offset < effTotal /\ RequestSize(offset, effTotal) > 0

\* Records of the log that no page counted as done by the checkpoint holds.
BeyondStored == ToSet(logRecs) \ CountedDone(Stored)

\* Records a page asked for at the stored position can return.
PageAtStored ==
    IF Stored.mode = "linear"
      THEN ToSet(Page(RootRecs(world.total), Stored.next_offset, pageSize))
      ELSE IF Stored.segment_index < Len(Stored.segments)
             THEN ToSet(Page(SegRecs(Stored.segments[Stored.segment_index + 1].prefix),
                             Stored.segment_offset, pageSize))
             ELSE {}

\* C19: in both fetchers every page request is made with the checkpoint
\* persisted at the position of the request, and at any instant the records
\* of the output log beyond the position of the persisted checkpoint belong
\* to at most one page.
C19_AtMostOnePageBeyond ==
    ckptStatus = "ok"
    => /\ AboutToRequestPage
          => IF st.mode = "linear"
               THEN Stored.next_offset = offset
               ELSE Stored.segment_index = idx /\ Stored.segment_offset = offset
       /\ BeyondStored \subseteq PageAtStored

\* The page request made in this step is answered 400.
PageRejected == pc = "seg_page" /\ req' # req /\ req'.status = 400

\* C20: a page request inside a segment answered 400 makes the Segmented
\* Fetcher record a warning naming the segment and the offset and leave the
\* segment's loop without ending the run; the step after it marks the segment
\* done and goes on with the next one, and what the log and the buffer hold
\* of the segment stays.
C20_RejectedPageEndsSegment ==
    /\ [][PageRejected
          => /\ [type |-> "api_limit_hit", prefix |-> Segments(st)[idx + 1].prefix,
                 offset |-> offset] \in warnings'
             /\ pc' = "seg_end"
             /\ lastEnd' = "running"
             /\ logRecs' = logRecs /\ buf' = buf]_vars
    /\ [][(pc = "seg_end" /\ req.status = 400 /\ pc' \notin {"seg_end", "idle"})
          => /\ pc' = "seg_loop"
             /\ idx' = idx + 1
             /\ offset' = 0
             /\ Stored'.segment_index = idx + 1
             /\ lastEnd' = "running"
             /\ logRecs' = logRecs /\ buf' = buf]_vars

\* A run ends normally after the second page of its first segment was
\* answered 400: the first page and the records of the next segment are
\* written.
C20_Witness ==
    /\ pc = "closing"
    /\ lastEnd = "done"
    /\ runs = 1
    /\ Len(st.segments) = 2
    /\ [type |-> "api_limit_hit", prefix |-> st.segments[1].prefix,
        offset |-> 1] \in warnings
    /\ Cardinality(warnings) = 1
    /\ Len(buf \o logRecs) = 3

\* fetch_linear is left in this step, and not by a failure of the transport
\* or of the server.
LinearStops ==
    /\ pc \in {"lin_request", "lin_dump"}
    /\ pc' = "closing"
    /\ lastEnd' # "error"

\* C21: over a fixed dataset within the window the Linear Fetcher stops in
\* two ways only: on a page of zero records, leaving the log, its buffer and
\* the checkpoint as they are, or right after the page that brings offset to
\* total or beyond.
C21_LinearStopsTwoWays ==
    [][(LinearStops /\ world.total <= MaxWindow)
       => \/ /\ pc = "lin_request"
             /\ Page(RootRecs(world.total), offset, pageSize) = <<>>
             /\ req'.status = 200
             /\ buf' = buf /\ logRecs' = logRecs
             /\ ckptState' = ckptState /\ ckptStatus' = ckptStatus
          \/ /\ pc = "lin_dump"
             /\ hits # <<>>
             /\ offset' >= world.total]_vars

\* The segment the Segmented Fetcher is in.
ThisSegment == Segments(st)[idx + 1]

\* The sub-segmentation-needed warnings recorded for a prefix.
ExceedsWarnings(ws, prefix) ==
    {w \in ws : w.type = "segment_exceeds_limit" /\ w.prefix = prefix}

\* C22: for a segment whose stored total exceeds the window the Segmented
\* Fetcher asks only for offsets below min(segment.total, window_cap) and
\* records a sub-segmentation-needed warning whose skipped count is
\* segment.total minus that; for a segment within the window it records no
\* such warning and, unless a page is rejected, leaves the segment only with
\* offset at segment.total or beyond, or on an empty page.
C22_EffectiveTotalCap ==
    /\ [][(pc = "seg_page" /\ pc' \in {"seg_end", "seg_dump"} /\ req' # req)
          => /\ req'.offset = offset
             /\ req'.offset < Min(ThisSegment.total, MaxWindow)]_vars
    /\ [][(pc = "seg_loop" /\ pc' = "seg_page")
          => IF ThisSegment.total > MaxWindow
               THEN \E w \in ExceedsWarnings(warnings', ThisSegment.prefix) :
                      /\ w.segment_total = ThisSegment.total
                      /\ w.records_skipped =
                           ThisSegment.total - Min(ThisSegment.total, MaxWindow)
               ELSE warnings' = warnings]_vars
    /\ [][(pc \in {"seg_page", "seg_dump"} /\ pc' = "seg_end"
            /\ ThisSegment.total <= MaxWindow /\ req'.status # 400)
          => \/ offset' >= ThisSegment.total
             \/ /\ pc = "seg_page"
                /\ req' # req
                /\ Page(SegRecs(ThisSegment.prefix), req'.offset, req'.size) = <<>>]_vars
    /\ [](\A w \in warnings :
            w.type = "segment_exceeds_limit" => w.segment_total > MaxWindow)

\* A segment above the window has been paged up to the last offset the
\* window allows, with its warning recorded, and left.
C22_Witness ==
    /\ pc = "seg_end"
    /\ ThisSegment.total > MaxWindow
    /\ req.offset = MaxWindow - 1
    /\ req.status = 200
    /\ offset = MaxWindow
    /\ \E w \in ExceedsWarnings(warnings, ThisSegment.prefix) : w.records_skipped = 1

\* The count queries sent so far for a strategy.
AskedOf(kind) == {i \in 1..Len(asked) : asked[i].kind = kind}

\* A count query of this strategy is sent in this step.
Tries(kind) ==
    /\ Len(asked') > Len(asked)
    /\ \E i \in (Len(asked) + 1)..Len(asked') : asked'[i].kind = kind

\* The node being sub-segmented is the root, above the safe limit, and none
\* of its charset children was enqueued.
RootWithoutChildren ==
    /\ node # NoNode
    /\ node.prefix = <<>>
    /\ node.total > SafeLimit
    /\ pending = <<>>

\* C23: a fallback strategy is tried only for a root above the safe limit
\* none of whose charset children has a nonzero count, and in the order
\* date, name, wildcard: name only after date produced no segment, wildcard
\* only after date and name produced none; the planner returns the segments
\* of the first strategy that produced any.
C23_FallbackOrder ==
    /\ [][(Tries("date") \/ Tries("name") \/ Tries("wildcard"))
          => RootWithoutChildren]_vars
    /\ [][(planPc = "name" /\ Tries("name"))
          => (AskedOf("date") # {} /\ dateSegments = <<>>)]_vars
    /\ [][Tries("wildcard")
          => (AskedOf("date") # {} /\ AskedOf("name") # {}
              /\ finalSegments = <<>>)]_vars
    /\ [][(planPc \in {"months", "subname"} /\ planPc' = "returned")
          => (result'.segments = finalSegments' /\ finalSegments' # <<>>
              /\ result'.field = IF planPc = "months" THEN "date" ELSE "name")]_vars

\* The query of the last count the planner asked for a prefix.
SizedBy(prefix) ==
    LET is == {i \in 1..Len(asked) : asked[i].prefix = prefix}
    IN  asked[CHOOSE i \in is : \A j \in is : j <= i].query

\* The queries the Segmented Fetcher issues for the segments of a state.
FetchQueries(s) ==
    [i \in 1..Len(s.segments) |->
        SegmentQuery(s.segments[i], ActualSegmentField(s, segmentField))]

\* C24: for every segment the planner returns, the query the Segmented
\* Fetcher issues for it (from prefix and effective field, or its
\* wildcard_query) is the query whose count sized the segment, also after
\* the segments and the field are reloaded from a checkpoint.
C24_FetchQueryIsCountedQuery ==
    planPc = "returned"
    => /\ \A i \in 1..Len(result.segments) :
            FetchQueries(PlannedState(result))[i] = SizedBy(result.segments[i].prefix)
       /\ FetchQueries(Load(DumpPayload(PlannedState(result))))
            = FetchQueries(PlannedState(result))

\* The page request made in this step ends with an error no fetcher handles.
PageRequestFails ==
    /\ AboutToRequestPage
    /\ pc' = "closing"
    /\ lastEnd' \in {"error", "rejected"}

\* The run that ended with such an error leaves in this step.
FailedRunCloses ==
    /\ pc = "closing"
    /\ lastEnd \in {"error", "rejected"}
    /\ pc' = "idle"
    /\ lastEnd' = lastEnd

\* C25: a page request that ends with an unhandled error appends no record
\* of that page to the output log, and the persisted checkpoint stays as
\* written after the last successful page, at the offset of the failed
\* request, through the end of the run.
C25_FailedPageLeavesNoTrace ==
    /\ [][PageRequestFails
          => /\ logRecs' = logRecs /\ buf' = buf
             /\ ckptStatus = "ok"
             /\ ckptState' = ckptState /\ ckptStatus' = ckptStatus
             /\ IF st.mode = "linear"
                  THEN Stored.next_offset = offset
                  ELSE Stored.segment_index = idx /\ Stored.segment_offset = offset]_vars
    /\ [][FailedRunCloses
          => /\ logRecs' = logRecs \o buf
             /\ ckptState' = ckptState /\ ckptStatus' = ckptStatus]_vars

\* A first run has ended with an error on the second page request of its
\* first segment: the log holds the first page, the checkpoint its end.
C25_Witness ==
    /\ pc = "idle"
    /\ lastEnd = "error"
    /\ runs = 1
    /\ kills = 0
    /\ ckptStatus = "ok"
    /\ Stored.mode = "segmented"
    /\ Stored.segment_index = 0
    /\ Stored.segment_offset = 1
    /\ Len(logRecs) = 1

\* The checkpoint file holds a completed segmented fetch, next to its log.
CompletedStored ==
    /\ ckptStatus = "ok"
    /\ logExists
    /\ Stored.mode = "segmented"
    /\ Stored.segment_index = Len(Stored.segments)

\* C26: a run without restart on a resource whose segmented fetch has
\* completed loads that checkpoint, asks for no count and no page, appends
\* nothing to the output log and leaves the checkpoint (mode, segments,
\* segment_index, segment_offset) as it is, up to its normal end.
C26_CompletedRerunIsIdle ==
    /\ [][(CompletedStored /\ pc = "idle" /\ pc' # "idle" /\ ~restart')
          => (pc' = "loaded" /\ st' = Stored /\ ckptState' = ckptState
              /\ logRecs' = logRecs)]_vars
    /\ [][(CompletedStored /\ pc # "idle" /\ ~restart /\ req = NoReq)
          => /\ req' = NoReq
             /\ pc' \notin {"counted", "seg_page", "lin_request"}
             /\ lastEnd' \in {"running", "done", "killed"}
             /\ logRecs' = logRecs /\ buf' = buf /\ buf = <<>>
             /\ ckptState' = ckptState /\ ckptStatus' = ckptStatus]_vars

\* A second run, without restart, over a fetch the first run completed has
\* reached its end without a request.
C26_Witness ==
    /\ CompletedStored
    /\ pc = "closing"
    /\ lastEnd = "done"
    /\ runs = 2
    /\ kills = 0
    /\ ~history.failed
    /\ ~restart
    /\ req = NoReq
    /\ logRecs # <<>>

\* a is a proper prefix of b.
ProperPrefix(a, b) == Len(a) < Len(b) /\ SubSeq(b, 1, Len(a)) = a

PrefixFree(segs) ==
    \A i, j \in 1..Len(segs) : ~ProperPrefix(segs[i].prefix, segs[j].prefix)

\* C27: the segments prefix expansion emits are prefix-free, while the
\* worklist runs and in what the planner returns: no emitted prefix is a
\* proper prefix of another emitted prefix (specification PlanSpec).
C27_SegmentsPrefixFree ==
    /\ PrefixFree(segments)
    /\ (planPc = "returned" /\ finalSegments = <<>>) => PrefixFree(result.segments)

\* Prefix expansion has returned leaves of two depths, one of them a
\* wildcard child.
C27_Witness ==
    /\ planPc = "returned"
    /\ finalSegments = <<>>
    /\ Len(result.segments) >= 3
    /\ \E i, j \in 1..Len(result.segments) :
         /\ Len(result.segments[i].prefix) = 1
         /\ Len(result.segments[j].prefix) >= 2
    /\ \E i \in 1..Len(result.segments) : HasDot(result.segments[i].prefix)

\* The worklist entries appended in this step.
Enqueued ==
    IF Len(pending') > Len(pending)
      THEN {pending'[i] : i \in (Len(pending) + 1)..Len(pending')}
      ELSE {}

\* C28: whatever the count queries answer, errors included, prefix
\* expansion terminates: a prefix is enqueued only while unseen and is seen
\* from then on, the worklist never holds a prefix twice, only a node of
\* depth below max_prefix_length is expanded, and the planning call ends,
\* with the worklist empty (specification PlanLiveSpec).
C28_ExpansionTerminates ==
    /\ <>(planPc \in {"returned", "raised"})
    /\ [](planPc = "returned" => pending = <<>>)
    /\ [](\A i, j \in 1..Len(pending) : i # j => pending[i].prefix # pending[j].prefix)
    /\ [][/\ seen \subseteq seen'
          /\ \A e \in Enqueued : e.prefix \notin seen /\ e.prefix \in seen'
                                  /\ e.depth <= MaxPrefixLength]_vars
    /\ [][(planPc = "expand" /\ planPc' # "expand")
          => (node.depth < MaxPrefixLength /\ node.total > SafeLimit)]_vars

\* A planning run has ended after expanding two levels, asking for wildcard
\* children and capping a node at the depth limit.
C28_Witness ==
    /\ planPc = "returned"
    /\ pending = <<>>
    /\ \E w \in planWarnings : w.type = "max_depth_exceeded"
    /\ \E i \in 1..Len(asked) : asked[i].kind = "wildcard"
    /\ \E i \in 1..Len(asked) : asked[i].kind = "prefix" /\ Len(asked[i].prefix) = 2

----------------------------------------------------------------------------
\* C29: the segmented fetcher skips a returned record only when a record
\* with the same identifier (the primary field "identifier", else the
\* secondary field "_id") was already written; records that carry neither
\* field are each written, never dropped as duplicates of one another.

\* The record carries an identifier: its primary field, else its secondary.
CarriesIdentifier(it) ==
    Truthy(Get(it, "identifier")) \/ Truthy(Get(it, "_id"))

\* The identifier of a record that carries one.
CarriedIdentifier(it) ==
    IF Truthy(Get(it, "identifier")) THEN it.identifier ELSE it._id

\* The step skipped its item.
ItemSkipped == duplicates_skipped' = duplicates_skipped + 1

C29_SkipOnlyWrittenIdentifier ==
    [][ItemSkipped =>
          IF CarriesIdentifier(lastItem')
          THEN \E k \in 1..Len(written) :
                  /\ CarriesIdentifier(written[k])
                  /\ CarriedIdentifier(written[k]) = CarriedIdentifier(lastItem')
          ELSE \E k \in 1..Len(written) : written[k] = lastItem']_vars

\* The part of C29 the loop keeps: a skipped item computes the identifier
\* of an item written before it.
C29_SkipOnlyComputedIdentifier ==
    [][ItemSkipped =>
          \E k \in 1..Len(written) :
              ItemIdentifier(written[k]) = ItemIdentifier(lastItem')]_vars

----------------------------------------------------------------------------
\* C30: a fetch that begins from a fresh checkpoint at position 0 instead
\* of a loaded one (no checkpoint file, a checkpoint file without output
\* log, or an output log without checkpoint file) finds no record of an
\* earlier run in the output log, so that the first page it appends is not
\* mixed with records of another run.  The log changes between the start
\* and the first append only by that append.

\* fetch_resource starts with FetchState(resource=resource), not a loaded
\* checkpoint.
BeginsFresh ==
    /\ pc = "idle"
    /\ pc' = "loaded"
    /\ ~(ckptStatus' # "absent" /\ logExists')

C30_FreshStartFindsEmptyLog ==
    [][BeginsFresh => logRecs' = <<>>]_vars

\* The fresh start of a run without --restart over a checkpoint file whose
\* output log is absent: the case of C30 the fetch itself produces.
C30_FreshOverCheckpoint ==
    /\ pc = "loaded"
    /\ ~restart
    /\ ckptStatus # "absent"
    /\ ~logExists
    /\ st = FreshState

============================================================================
